---- MODULE Spec2Model ----
(***************************************************************************)
(* FlashTalk: the realtime voice session engine of src/App.tsx             *)
(* (useLiveGemini and the App component that drives it).                   *)
(*                                                                         *)
(* The hook's React state and refs are the variables below.  Every handler *)
(* of the source is a pure operator on the record St of all of them, so    *)
(* that handlers that run back to back in one task (onopen, then the       *)
(* reactions of the settled session promise; connect's catch, then         *)
(* cleanup) compose as the source composes them.  An action applies one    *)
(* task of the event loop and commits its result.                          *)
(***************************************************************************)
EXTENDS Integers, Sequences, FiniteSets, TLC

(***************************************************************************)
(* Bounds of the model.                                                    *)
(***************************************************************************)
\* connect() invocations that pass the API key guard, per behaviour
MaxConnects == 2
\* disconnect() chains that may wait on one unsettled session promise
MaxPendingDisconnects == 1
\* transport messages delivered, per behaviour
MaxMsgs == 3
\* value of the wall clock (Date.now) at which it stops advancing
MaxNow == 1
\* value of the output clock (AudioContext.currentTime) at which it stops
MaxClock == 3
\* samples of a captured frame, at most
MaxFrame == 2
\* audio ticks (onaudioprocess events), per behaviour
MaxTicks == 2
\* the captured samples are the multiples of 1 / SampleDen
SampleDen == 100

(***************************************************************************)
(* Values.                                                                 *)
(***************************************************************************)
\* a ref that holds null (useRef<...>(null)); object ids start at 1
Null == 0

ConnectIds == 1..MaxConnects
\* the two AudioContexts connect() number k constructs
InputCtxOf(k) == 2 * k - 1
OutputCtxOf(k) == 2 * k
CtxIds == 1..(2 * MaxConnects)

\* string | null, as the empty or the one-element sequence
NoError == <<>>
Err(msg) == <<msg>>

MsgApiKey == "API Key is missing. Please check your environment configuration."
MsgAudioContext == "Could not initialize AudioContext. Your browser may not support it."
MsgMicDenied == "Microphone access denied. Please allow permissions in your browser settings."
MsgMicNotFound == "No microphone found. Please check your input devices."
MsgMicOther == "Could not access microphone: "
MsgInitFailed == "Failed to initialize audio or connection."
MsgGeneric == "Connection to Gemini failed. Please try again."

\* err.name of a rejected getUserMedia
MicErrorNames == {"NotAllowedError", "NotFoundError", "AbortError"}
\* err.message of a rejected getUserMedia, of a rejected live.connect and of
\* an onerror event; the empty string stands for a missing message as well
ErrorMessages == {"", "socket closed", "operation cancelled"}

\* String.prototype.includes("cancelled") on the messages above
IncludesCancelled(msg) == msg \in {"operation cancelled"}

\* the byte means the two analysers can report (Uint8Array: 0..255)
Levels == {0, 7, 255}

Max(a, b) == IF a >= b THEN a ELSE b

\* Number.prototype.toString of a non-negative integer
Digit(d) ==
  CASE d = 0 -> "0" [] d = 1 -> "1" [] d = 2 -> "2" [] d = 3 -> "3"
    [] d = 4 -> "4" [] d = 5 -> "5" [] d = 6 -> "6" [] d = 7 -> "7"
    [] d = 8 -> "8" [] OTHER -> "9"

RECURSIVE toString(_)
toString(n) == IF n < 10 THEN Digit(n) ELSE toString(n \div 10) \o Digit(n % 10)

\* the string of n blanks
RECURSIVE Spaces(_)
Spaces(n) == IF n = 0 THEN "" ELSE " " \o Spaces(n - 1)

\* !str.trim(): the text is empty or only white space (a blank is the only
\* white space the deltas below carry)
IsBlank(str) == str = Spaces(Len(str))

\* an optional field of a message: absent, or present with its text
Absent == [present |-> FALSE, text |-> ""]
Present(text) == [present |-> TRUE, text |-> text]

\* inputTranscription.text and outputTranscription.text of the transport's
\* messages; the empty string stands for a missing text as well
InputDeltas == {" ", "hi"}
OutputDeltas == {"", "Hel", "lo"}
\* audioBuffer.duration of a decoded payload, in ticks of the output clock
Durations == {1, 2}
\* inlineData of a message without audio
NoAudio == 0
\* inlineData that decodeBase64 or decodeAudioData fails on, by throwing
BadAudio == -1

\* The PCM codec.  A captured sample is the rational n / SampleDen, given by
\* its numerator n; the samples below lie inside, at the ends of and outside
\* [-1, 1]
SampleNums ==
  {-SampleDen - 50, -SampleDen - 1, -SampleDen, 1 - SampleDen, -33, -1, 0,
   1, 33, 50, SampleDen - 1, SampleDen, SampleDen + 1, SampleDen + 50}
\* the frames an audio tick may read
Frames ==
  UNION {[1..n -> SampleNums] : n \in 0..MaxFrame}
\* the conversions of a scaled sample to an integer that the codec may use
Roundings == {"trunc", "nearest"}
\* a signed 16-bit integer spans -Int16Scale .. Int16Scale - 1
Int16Scale == 32768

\* SmartTools: the tools without an image or a location, the texts typed,
\* the texts a query returns, the texts an edit of the result gives, and the
\* messages of the errors a query throws
Tools == {"FAST", "CHAT"}
Queries == {"weather"}
ToolResults == {"sunny"}
Edits == {"rainy"}
ToolErrorMessages == {"", "404 not found"}
Includes404(msg) == msg = "404 not found"
MsgUnexpected == "An unexpected error occurred."
MsgToolUnavailable == "Tool unavailable. Try another."
\* the argument of slice in saveToHistory
HistorySlice == 50

\* MODES, by id: the persona of a mode is its systemInstruction
Modes == {"assistant", "tutor"}
\* the voiceName of a mode
VoiceOf(mode) == IF mode = "assistant" THEN "Kore" ELSE "Puck"
\* VOICES
Voices == {"Kore", "Puck"}
\* the config of a connect() that has not been called
NoConfig == [systemInstruction |-> "", voiceName |-> ""]

\* serverContent of the messages without audio.  The handler takes the fields
\* of a message in the order inputTranscription, outputTranscription,
\* turnComplete, each on its own: a message with several of them is handled
\* as the messages with one field each are, delivered back to back.
TextMessages ==
  [interrupted : {FALSE}, audio : {NoAudio},
   inputTranscription : {Present(d) : d \in InputDeltas},
   outputTranscription : {Absent}, turnComplete : {FALSE}]
  \cup
  [interrupted : {FALSE}, audio : {NoAudio},
   inputTranscription : {Absent},
   outputTranscription : {Present(d) : d \in OutputDeltas},
   turnComplete : {FALSE}]
  \cup
  [interrupted : {FALSE}, audio : {NoAudio},
   inputTranscription : {Absent}, outputTranscription : {Absent},
   turnComplete : {TRUE}]

\* serverContent of the messages that carry audio only
AudioMessages ==
  [interrupted : {FALSE}, audio : Durations \cup {BadAudio},
   inputTranscription : {Absent}, outputTranscription : {Absent},
   turnComplete : {FALSE}]

InterruptedMessage ==
  [interrupted |-> TRUE, audio |-> NoAudio, inputTranscription |-> Absent,
   outputTranscription |-> Absent, turnComplete |-> FALSE]

(***************************************************************************)
(* The program's state.                                                    *)
(***************************************************************************)
VARIABLES
  \* useState of useLiveGemini
  connectionState, volume, error, transcript,
  \* setTranscript updaters React has queued and not yet rendered
  updateQueue,
  \* useRef of useLiveGemini
  inputAudioContextRef, outputAudioContextRef, inputSourceRef, processorRef,
  outputNodeRef, compressorRef, inputAnalyzerRef, outputAnalyzerRef,
  nextStartTimeRef, activeSourcesRef, sessionRef, streamRef,
  currentInputTransRef, currentOutputTransRef,
  \* useState of App
  view, isSettingsOpen, activeMode, voiceName,
  \* useState of SmartTools, the velocity_history entry of localStorage, and
  \* the executeTool invocation suspended at its query, if any
  activeTool, inputText, isProcessing, resultText, toolError, history,
  currentHistoryId, localStorage, toolRun,
  \* the codec: the frame of an audio tick, the bytes encode made of it, and
  \* the samples decode made of the bytes (numerators over Int16Scale)
  inputData, pcmBlob, channelData,
  \* the environment: process.env.API_KEY, the AudioContexts, MediaStreams and
  \* transports the browser and the SDK hold, the session promises, each
  \* connect() invocation's position, disconnect() chains waiting on a promise,
  \* onmessage handlers suspended at an await, the buffer sources in the graph
  \* and the number created, and the two clocks
  apiKey, contexts, streams, transports, promises, connectPc, calls,
  pendingDisconnects, handlers, sources, created, now, currentTime,
  \* the input contexts that have a ScriptProcessor wired, the frames each
  \* transport was handed, and the sends that wait on each session promise
  processors, framesSent, pendingSends,
  \* the persona and voice each connect() invocation closed over, which it
  \* hands to live.connect
  configs,
  \* history: what the claims are stated about, read by no handler
  hist

vars == <<connectionState, volume, error, transcript, updateQueue,
          inputAudioContextRef, outputAudioContextRef, inputSourceRef,
          processorRef, outputNodeRef, compressorRef, inputAnalyzerRef,
          outputAnalyzerRef, nextStartTimeRef, activeSourcesRef, sessionRef,
          streamRef, currentInputTransRef, currentOutputTransRef,
          view, isSettingsOpen, activeMode, voiceName,
          activeTool, inputText, isProcessing, resultText, toolError, history,
          currentHistoryId, localStorage, toolRun,
          inputData, pcmBlob, channelData,
          apiKey, contexts, streams, transports, promises, connectPc, calls,
          pendingDisconnects, handlers, sources, created, now, currentTime,
          processors, framesSent, pendingSends, configs,
          hist>>

\* the current state as one record, the argument of every handler
St ==
  [connectionState |-> connectionState, volume |-> volume, error |-> error,
   transcript |-> transcript, updateQueue |-> updateQueue,
   inputAudioContextRef |-> inputAudioContextRef,
   outputAudioContextRef |-> outputAudioContextRef,
   inputSourceRef |-> inputSourceRef, processorRef |-> processorRef,
   outputNodeRef |-> outputNodeRef, compressorRef |-> compressorRef,
   inputAnalyzerRef |-> inputAnalyzerRef,
   outputAnalyzerRef |-> outputAnalyzerRef,
   nextStartTimeRef |-> nextStartTimeRef,
   activeSourcesRef |-> activeSourcesRef, sessionRef |-> sessionRef,
   streamRef |-> streamRef, currentInputTransRef |-> currentInputTransRef,
   currentOutputTransRef |-> currentOutputTransRef,
   view |-> view, isSettingsOpen |-> isSettingsOpen,
   activeMode |-> activeMode, voiceName |-> voiceName,
   activeTool |-> activeTool, inputText |-> inputText,
   isProcessing |-> isProcessing, resultText |-> resultText,
   toolError |-> toolError, history |-> history,
   currentHistoryId |-> currentHistoryId, localStorage |-> localStorage,
   toolRun |-> toolRun,
   inputData |-> inputData, pcmBlob |-> pcmBlob, channelData |-> channelData,
   apiKey |-> apiKey, contexts |-> contexts, streams |-> streams,
   transports |-> transports, promises |-> promises, connectPc |-> connectPc,
   calls |-> calls, pendingDisconnects |-> pendingDisconnects,
   handlers |-> handlers, sources |-> sources, created |-> created,
   now |-> now,
   currentTime |-> currentTime,
   processors |-> processors, framesSent |-> framesSent,
   pendingSends |-> pendingSends, configs |-> configs]

\* the state after a task: every variable takes its value from s, hist from h
Commit(s, h) ==
  /\ connectionState' = s.connectionState
  /\ volume' = s.volume
  /\ error' = s.error
  /\ transcript' = s.transcript
  /\ updateQueue' = s.updateQueue
  /\ inputAudioContextRef' = s.inputAudioContextRef
  /\ outputAudioContextRef' = s.outputAudioContextRef
  /\ inputSourceRef' = s.inputSourceRef
  /\ processorRef' = s.processorRef
  /\ outputNodeRef' = s.outputNodeRef
  /\ compressorRef' = s.compressorRef
  /\ inputAnalyzerRef' = s.inputAnalyzerRef
  /\ outputAnalyzerRef' = s.outputAnalyzerRef
  /\ nextStartTimeRef' = s.nextStartTimeRef
  /\ activeSourcesRef' = s.activeSourcesRef
  /\ sessionRef' = s.sessionRef
  /\ streamRef' = s.streamRef
  /\ currentInputTransRef' = s.currentInputTransRef
  /\ currentOutputTransRef' = s.currentOutputTransRef
  /\ view' = s.view
  /\ isSettingsOpen' = s.isSettingsOpen
  /\ activeMode' = s.activeMode
  /\ voiceName' = s.voiceName
  /\ activeTool' = s.activeTool
  /\ inputText' = s.inputText
  /\ isProcessing' = s.isProcessing
  /\ resultText' = s.resultText
  /\ toolError' = s.toolError
  /\ history' = s.history
  /\ currentHistoryId' = s.currentHistoryId
  /\ localStorage' = s.localStorage
  /\ toolRun' = s.toolRun
  /\ inputData' = s.inputData
  /\ pcmBlob' = s.pcmBlob
  /\ channelData' = s.channelData
  /\ apiKey' = s.apiKey
  /\ contexts' = s.contexts
  /\ streams' = s.streams
  /\ transports' = s.transports
  /\ promises' = s.promises
  /\ connectPc' = s.connectPc
  /\ calls' = s.calls
  /\ pendingDisconnects' = s.pendingDisconnects
  /\ handlers' = s.handlers
  /\ sources' = s.sources
  /\ created' = s.created
  /\ now' = s.now
  /\ currentTime' = s.currentTime
  /\ processors' = s.processors
  /\ framesSent' = s.framesSent
  /\ pendingSends' = s.pendingSends
  /\ configs' = s.configs
  /\ hist' = h

(***************************************************************************)
(* The state after construction: useState and useRef initial values of     *)
(* useLiveGemini and App, nothing acquired.  The credential is fixed at    *)
(* build time, to either a key or none.                                    *)
(***************************************************************************)
\* what is recorded of a turn (the messages between two turnComplete): the
\* input and output deltas received, concatenated; the number of output
\* deltas; the length of the rendered log when the turn began; whether no
\* interruption and no cleanup fell into it; whether an input delta arrived
\* after an output delta of the turn
NewTurn(base) ==
  [input |-> "", output |-> "", outputs |-> 0, base |-> base, clean |-> TRUE,
   overlap |-> FALSE]

\* failedSetup: the last task of the session's lifecycle ran connect's catch;
\* disconnected: disconnect() was called and connect() was not since; msgs:
\* messages delivered; lastEvent: the last part of a message handled since
\* the last interruption or cleanup; turn: the turn in progress; done: the
\* last turn completed; scheduled: the units scheduled since the last
\* interruption or cleanup, in order; cut: the cursor that the last
\* interruption found; overtaken: for each suspended handler, in order,
\* whether the handler of a later message without audio, which has no
\* await, has run to its end since;
\* reordered: the last task resumed an overtaken handler, which scheduled
\* its unit; stale: for each suspended handler, in order, whether an
\* interruption has been handled since it was suspended; startedStale: the
\* last task resumed a stale handler, which scheduled its unit; heard: the
\* input deltas received since the last flush of the user text
\* (sinceFlush), and since that flush or the last cleanup (sinceReset),
\* concatenated; flushes: for each flush of the user text, in order, what
\* heard was when it was made; saved: if the last task of SmartTools was the successful end
\* of a query, the query and its result; dropped: the last handler that ran ended at a decode failure;
\* sinceCut: if an interruption fell into the turn in progress and no
\* cleanup came after it, the assistant text the last one found pending
\* (lost) and the output deltas received since, concatenated (text);
\* disc: if the last task of the lifecycle called disconnect(), the session
\* handle it found (k) and whether the promise of that session was pending;
\* chains: if that task settled a session promise on which disconnect()
\* chains waited, the session;
\* ticks: audio ticks so far; tick: if the last task of the lifecycle or of
\* the capture was an audio tick, whether it found a session handle, whether
\* it handed its frame over (to a transport, or to a reaction of the session
\* promise), whether a transport took the frame in the tick, and whether the
\* state was Connected; idle: cleanup has run and connect() has not been
\* called since; lateSend: the last task of the lifecycle handed a frame to
\* a transport although it began idle;
\* onerror: if the last task of the lifecycle was onerror, the
\* message of its error and the error field it found; micFailed: if that
\* task was the rejection of getUserMedia, the connect() it belongs to and
\* the name and message of the rejection
InitHist ==
  [failedSetup |-> FALSE, disconnected |-> FALSE, onerror |-> <<>>,
   micFailed |-> <<>>, dropped |-> FALSE, saved |-> <<>>, msgs |-> 0,
   ticks |-> 0, tick |-> <<>>, idle |-> FALSE, lateSend |-> FALSE,
   sinceCut |-> <<>>, disc |-> <<>>, chains |-> <<>>,
   lastEvent |-> "none", turn |-> NewTurn(0), done |-> NewTurn(0),
   scheduled |-> <<>>, cut |-> 0, overtaken |-> <<>>, reordered |-> FALSE,
   stale |-> <<>>, startedStale |-> FALSE,
   heard |-> [sinceFlush |-> "", sinceReset |-> ""], flushes |-> <<>>]

\* the state after construction, but for the credential and the codec's frame
InitBase ==
  /\ connectionState = "DISCONNECTED"
  /\ volume = 0
  /\ error = NoError
  /\ transcript = <<>>
  /\ updateQueue = <<>>
  /\ inputAudioContextRef = Null
  /\ outputAudioContextRef = Null
  /\ inputSourceRef = Null
  /\ processorRef = Null
  /\ outputNodeRef = Null
  /\ compressorRef = Null
  /\ inputAnalyzerRef = Null
  /\ outputAnalyzerRef = Null
  /\ nextStartTimeRef = 0
  /\ activeSourcesRef = {}
  /\ sessionRef = Null
  /\ streamRef = Null
  /\ currentInputTransRef = ""
  /\ currentOutputTransRef = ""
  /\ view = "live"
  /\ isSettingsOpen = FALSE
  /\ activeMode = "assistant"
  /\ voiceName = "Kore"
  /\ activeTool = "FAST"
  /\ inputText = ""
  /\ isProcessing = FALSE
  /\ resultText = ""
  /\ toolError = NoError
  /\ history = <<>>
  /\ currentHistoryId = ""
  /\ localStorage = <<>>
  /\ toolRun = <<>>
  /\ pcmBlob = <<>>
  /\ channelData = <<>>
  /\ contexts = [c \in CtxIds |-> "none"]
  /\ streams = [k \in ConnectIds |-> "none"]
  /\ transports = [k \in ConnectIds |-> "none"]
  /\ promises = [k \in ConnectIds |-> "none"]
  /\ connectPc = [k \in ConnectIds |-> "unused"]
  /\ calls = 0
  /\ pendingDisconnects = [k \in ConnectIds |-> 0]
  /\ handlers = <<>>
  /\ sources = {}
  /\ created = 0
  /\ now = 0
  /\ currentTime = [c \in CtxIds |-> 0]
  /\ processors = {}
  /\ framesSent = [k \in ConnectIds |-> 0]
  /\ pendingSends = [k \in ConnectIds |-> 0]
  /\ configs = [k \in ConnectIds |-> NoConfig]
  /\ hist = InitHist

InitWith(key) ==
  /\ InitBase
  /\ apiKey = key
  /\ inputData = <<>>

Init == \E key \in BOOLEAN : InitWith(key)

(***************************************************************************)
(* cleanup (useLiveGemini).                                                *)
(***************************************************************************)
\* activeSourcesRef.current.forEach(source => source.stop()): a stopped
\* source leaves the graph
StopSources(s) == {src \in s.sources : src.id \notin s.activeSourcesRef}

\* streamRef.current.getTracks().forEach(track => track.stop())
StopTracks(s) ==
  IF s.streamRef # Null
  THEN [s.streams EXCEPT ![s.streamRef] = "stopped"]
  ELSE s.streams

\* inputAudioContextRef.current.close(); outputAudioContextRef.current.close()
CloseContexts(s) ==
  [c \in CtxIds |->
     IF c # Null /\ c \in {s.inputAudioContextRef, s.outputAudioContextRef}
     THEN "closed"
     ELSE s.contexts[c]]

\* cleanup without setVolume(0)
cleanupKeepingVolume(s) ==
  [s EXCEPT !.sources = StopSources(s),
            !.activeSourcesRef = {},
            !.streams = StopTracks(s),
            !.streamRef = Null,
            !.contexts = CloseContexts(s),
            !.inputAudioContextRef = Null,
            !.outputAudioContextRef = Null,
            !.connectionState = "DISCONNECTED",
            !.sessionRef = Null,
            !.currentInputTransRef = "",
            !.currentOutputTransRef = "",
            !.nextStartTimeRef = 0]

cleanup(s) ==
  [s EXCEPT !.sources = StopSources(s),
            !.activeSourcesRef = {},
            !.streams = StopTracks(s),
            !.streamRef = Null,
            !.contexts = CloseContexts(s),
            !.inputAudioContextRef = Null,
            !.outputAudioContextRef = Null,
            !.connectionState = "DISCONNECTED",
            !.volume = 0,
            !.sessionRef = Null,
            !.currentInputTransRef = "",
            !.currentOutputTransRef = "",
            !.nextStartTimeRef = 0]

(***************************************************************************)
(* connect (useLiveGemini), one operator per stretch between two awaits.   *)
(***************************************************************************)
\* the catch block: msg is err.message
catch(s, msg) ==
  cleanup([s EXCEPT !.error = Err(IF msg = "" THEN MsgInitFailed ELSE msg),
                    !.connectionState = "ERROR"])

\* connect whose credential guard reports the error after
\* setConnectionState(CONNECTING)
connectGuardAfterConnecting(s, ctxFail) ==
  [s EXCEPT !.connectionState = "CONNECTING", !.error = Err(MsgApiKey)]

\* From the call to the first await.  ctxFail says which AudioContext
\* constructor throws: "none", "input" or "output".
connect(s, ctxFail) ==
  IF ~s.apiKey
  THEN [s EXCEPT !.error = Err(MsgApiKey)]
  ELSE
    LET k == s.calls + 1
        s1 == [s EXCEPT !.connectionState = "CONNECTING",
                        !.error = NoError,
                        !.calls = k,
                        !.configs[k] = [systemInstruction |-> s.activeMode,
                                        voiceName |-> s.voiceName],
                        !.connectPc[k] = "done"]
        s2 == [s1 EXCEPT !.inputAudioContextRef = InputCtxOf(k),
                         !.contexts[InputCtxOf(k)] = "running"]
        s3 == [s2 EXCEPT !.outputAudioContextRef = OutputCtxOf(k),
                         !.contexts[OutputCtxOf(k)] = "running",
                         !.outputNodeRef = OutputCtxOf(k),
                         !.compressorRef = OutputCtxOf(k),
                         !.outputAnalyzerRef = OutputCtxOf(k),
                         !.inputAnalyzerRef = InputCtxOf(k),
                         !.streams[k] = "pending",
                         !.connectPc[k] = "awaitMic"]
    IN CASE ctxFail = "input" -> catch(s1, MsgAudioContext)
         [] ctxFail = "output" -> catch(s2, MsgAudioContext)
         [] OTHER -> s3

\* the message thrown for a rejected getUserMedia
MicErrorMessage(name, msg) ==
  IF name \in {"NotAllowedError", "PermissionDeniedError"}
  THEN MsgMicDenied
  ELSE IF name \in {"NotFoundError", "DevicesNotFoundError"}
       THEN MsgMicNotFound
       ELSE MsgMicOther \o msg

\* getUserMedia resolved: from streamRef.current = stream to await sessionPromise
micGranted(s, k) ==
  [s EXCEPT !.streams[k] = "live",
            !.streamRef = k,
            !.transports[k] = "opening",
            !.promises[k] = "pending",
            !.sessionRef = k,
            !.connectPc[k] = "awaitSession"]

\* getUserMedia rejected
micDenied(s, k, name, msg) ==
  catch([s EXCEPT !.streams[k] = "denied", !.connectPc[k] = "done"],
        MicErrorMessage(name, msg))

\* callbacks.onopen
onopen(s) ==
  LET s1 == [s EXCEPT !.connectionState = "CONNECTED"]
  IN IF \/ s.inputAudioContextRef = Null
        \/ s.streamRef = Null
        \/ s.inputAnalyzerRef = Null
     THEN s1
     ELSE [s1 EXCEPT
             !.inputSourceRef = [ctx |-> s.inputAudioContextRef,
                                 stream |-> s.streamRef],
             !.processorRef = s.inputAudioContextRef,
             !.processors = @ \cup {s.inputAudioContextRef}]

\* session.sendRealtimeInput on the resolved session of transport k, n
\* times: a transport that is not open throws, which the caller ignores
sendRealtimeInput(s, k, n) ==
  IF s.transports[k] = "open"
  THEN [s EXCEPT !.framesSent[k] = @ + n]
  ELSE s

\* processor.onaudioprocess: the send is a reaction of the session promise,
\* run at once when the promise is resolved, never when it is rejected
onaudioprocess(s) ==
  IF s.sessionRef # Null
  THEN CASE s.promises[s.sessionRef] = "resolved" ->
              sendRealtimeInput(s, s.sessionRef, 1)
         [] s.promises[s.sessionRef] = "pending" ->
              [s EXCEPT !.pendingSends[s.sessionRef] = @ + 1]
         [] OTHER -> s
  ELSE s

\* callbacks.onclose
onclose(s) == cleanup(s)

\* callbacks.onerror
onerror(s, msg) ==
  cleanup(IF msg # "" /\ ~IncludesCancelled(msg)
          THEN [s EXCEPT !.error = Err(MsgGeneric)]
          ELSE s)

(***************************************************************************)
(* disconnect (useLiveGemini).                                             *)
(***************************************************************************)
\* session.close() on the resolved session of transport k
sessionClose(s, k) ==
  IF s.transports[k] = "open"
  THEN [s EXCEPT !.transports[k] = "closing"]
  ELSE s

\* sessionRef.current.then(close).catch().finally(cleanup), once promise k
\* has settled
\* the chain without session.close()
disconnectChainNoClose(s, k) == cleanup(s)

disconnectChain(s, k) ==
  IF s.promises[k] = "resolved"
  THEN cleanup(sessionClose(s, k))
  ELSE cleanup(s)

disconnect(s) ==
  IF s.sessionRef # Null
  THEN IF s.promises[s.sessionRef] = "pending"
       THEN [s EXCEPT !.pendingDisconnects[s.sessionRef] = @ + 1]
       ELSE disconnectChain(s, s.sessionRef)
  ELSE cleanup(s)

\* the reactions of promise k, run when it settles: the chains disconnect()
\* registered while it was pending
RECURSIVE runChains(_, _, _)
runChains(s, k, n) ==
  IF n = 0 THEN s ELSE runChains(disconnectChain(s, k), k, n - 1)

\* the sends that waited on promise k
runSends(s, k) ==
  LET s1 == [s EXCEPT !.pendingSends[k] = 0]
  IN IF s.promises[k] = "resolved"
     THEN sendRealtimeInput(s1, k, s.pendingSends[k])
     ELSE s1

settle(s, k) ==
  runChains(runSends([s EXCEPT !.pendingDisconnects[k] = 0], k), k,
            s.pendingDisconnects[k])

(***************************************************************************)
(* App: the handlers of the UI.                                            *)
(***************************************************************************)
handleToggleConnection(s, ctxFail) ==
  IF s.connectionState = "CONNECTED" THEN disconnect(s) ELSE connect(s, ctxFail)

onSelectMode(s, mode) ==
  [(IF s.connectionState = "CONNECTED" THEN disconnect(s) ELSE s)
     EXCEPT !.activeMode = mode,
            !.voiceName = VoiceOf(mode),
            !.isSettingsOpen = FALSE]

onSelectVoice(s, voice) ==
  [(IF s.connectionState = "CONNECTED" THEN disconnect(s) ELSE s)
     EXCEPT !.voiceName = voice]

\* updateVisualizer that reports the input tap only
updateVisualizerInputOnly(s, inputLevel, outputLevel) ==
  IF s.connectionState = "CONNECTED"
  THEN [s EXCEPT !.volume = IF s.inputAnalyzerRef # Null
                            THEN inputLevel ELSE 0]
  ELSE [s EXCEPT !.volume = 0]

\* updateVisualizer, one animation frame; inputLevel and outputLevel are the
\* means of the two analysers' byte frequency data.  The frame reads the
\* connectionState of the render that started its loop, taken here to be
\* the current one, as every state but the transcript is.
updateVisualizer(s, inputLevel, outputLevel) ==
  IF s.connectionState = "CONNECTED"
  THEN LET inputVol == IF s.inputAnalyzerRef # Null THEN inputLevel ELSE 0
           outputVol == IF s.outputAnalyzerRef # Null THEN outputLevel ELSE 0
       IN [s EXCEPT !.volume = Max(inputVol, outputVol)]
  ELSE [s EXCEPT !.volume = 0]

(***************************************************************************)
(* setTranscript.  React runs an updater at once when the component has no *)
(* update pending (the eager state), and otherwise queues it and runs it   *)
(* at the next render: what an updater reads from a ref or from Date.now() *)
(* is then read at the render.  Whether an update of another state of the  *)
(* component is pending is not modelled, so an updater that meets an empty *)
(* queue may run either way (eager).                                       *)
(***************************************************************************)
NoMessage == [id |-> "", role |-> "", text |-> "", isPartial |-> FALSE, timestamp |-> 0]

\* prev => [...prev, {id: Date.now().toString(), role: 'user', text: userText, ...}]
AppendUser(userText) == [kind |-> "appendUser", text |-> userText, value |-> <<>>]
\* prev => last is a partial assistant message ? replace its text : append one
UpsertAssistant == [kind |-> "upsertAssistant", text |-> "", value |-> <<>>]
\* prev => last is an assistant message ? {...last, isPartial: false} : prev
Finalize == [kind |-> "finalize", text |-> "", value |-> <<>>]
\* an update whose state React computed when it was made
Eager(value) == [kind |-> "eager", text |-> "", value |-> value]

\* ApplyUpdate whose upsert replaces the text of any trailing assistant
\* message, partial or not
ApplyUpdateReplacingLast(u, prev, outputTrans, clock) ==
  LET n == Len(prev)
      last == IF n > 0 THEN prev[n] ELSE NoMessage
  IN CASE u.kind = "eager" -> u.value
       [] u.kind = "appendUser" ->
            Append(prev, [id |-> toString(clock), role |-> "user",
                          text |-> u.text, isPartial |-> FALSE,
                          timestamp |-> clock])
       [] u.kind = "upsertAssistant" ->
            IF n > 0 /\ last.role = "assistant"
            THEN [prev EXCEPT ![n].text = outputTrans]
            ELSE Append(prev, [id |-> toString(clock), role |-> "assistant",
                               text |-> outputTrans, isPartial |-> TRUE,
                               timestamp |-> clock])
       [] OTHER ->
            IF n > 0 /\ last.role = "assistant"
            THEN [prev EXCEPT ![n].isPartial = FALSE]
            ELSE prev

\* one updater applied to prev, reading the output accumulator and the clock
ApplyUpdate(u, prev, outputTrans, clock) ==
  LET n == Len(prev)
      last == IF n > 0 THEN prev[n] ELSE NoMessage
  IN CASE u.kind = "eager" -> u.value
       [] u.kind = "appendUser" ->
            Append(prev, [id |-> toString(clock), role |-> "user",
                          text |-> u.text, isPartial |-> FALSE,
                          timestamp |-> clock])
       [] u.kind = "upsertAssistant" ->
            IF n > 0 /\ last.role = "assistant" /\ last.isPartial
            THEN [prev EXCEPT ![n].text = outputTrans]
            ELSE Append(prev, [id |-> toString(clock), role |-> "assistant",
                               text |-> outputTrans, isPartial |-> TRUE,
                               timestamp |-> clock])
       [] OTHER ->
            IF n > 0 /\ last.role = "assistant"
            THEN [prev EXCEPT ![n].isPartial = FALSE]
            ELSE prev

RECURSIVE ApplyQueue(_, _, _, _)
ApplyQueue(queue, prev, outputTrans, clock) ==
  IF queue = <<>> THEN prev
  ELSE ApplyQueue(Tail(queue), ApplyUpdate(Head(queue), prev, outputTrans, clock),
                  outputTrans, clock)

\* the transcript the next render shows
Rendered(s) ==
  ApplyQueue(s.updateQueue, s.transcript, s.currentOutputTransRef, s.now)

setTranscript(s, u, eager) ==
  IF eager /\ s.updateQueue = <<>>
  THEN LET value == ApplyUpdate(u, s.transcript, s.currentOutputTransRef, s.now)
       IN IF u.kind = "finalize" /\ value = s.transcript
          THEN s
          ELSE [s EXCEPT !.updateQueue = <<Eager(value)>>]
  ELSE [s EXCEPT !.updateQueue = Append(@, u)]

\* React renders: the queued updaters run in order
render(s) == [s EXCEPT !.transcript = Rendered(s), !.updateQueue = <<>>]

(***************************************************************************)
(* callbacks.onmessage.                                                    *)
(***************************************************************************)
\* serverContent.interrupted
\* interrupted without nextStartTimeRef.current = 0
interruptedKeepingCursor(s) ==
  [s EXCEPT !.sources = StopSources(s),
            !.activeSourcesRef = {},
            !.currentOutputTransRef = ""]

\* interrupted without currentOutputTransRef.current = ""
interruptedKeepingTranscript(s) ==
  [s EXCEPT !.sources = StopSources(s),
            !.activeSourcesRef = {},
            !.nextStartTimeRef = 0]

\* interrupted that stops no source and leaves the in-flight set
interruptedKeepingSources(s) ==
  [s EXCEPT !.nextStartTimeRef = 0,
            !.currentOutputTransRef = ""]

interrupted(s) ==
  [s EXCEPT !.sources = StopSources(s),
            !.activeSourcesRef = {},
            !.nextStartTimeRef = 0,
            !.currentOutputTransRef = ""]

\* from ctx.createBufferSource() to source.onended = ...; the source of
\* another context than the gain node's cannot be connected to it, and the
\* handler ends there
CanSchedule(s, ctx) == s.outputNodeRef = ctx

\* schedule that starts every unit at the clock, whatever the cursor
scheduleAtClock(s, ctx, duration) ==
  LET start == s.currentTime[ctx]
      id == s.created + 1
  IN [s EXCEPT !.sources = @ \cup {[id |-> id, ctx |-> ctx, start |-> start,
                                    duration |-> duration]},
               !.created = id,
               !.nextStartTimeRef = start + duration,
               !.activeSourcesRef = @ \cup {id}]

\* schedule without the catch-up: every unit starts at the cursor
scheduleAtCursor(s, ctx, duration) ==
  LET start == s.nextStartTimeRef
      id == s.created + 1
  IN [s EXCEPT !.sources = @ \cup {[id |-> id, ctx |-> ctx, start |-> start,
                                    duration |-> duration]},
               !.created = id,
               !.nextStartTimeRef = start + duration,
               !.activeSourcesRef = @ \cup {id}]

schedule(s, ctx, duration) ==
  LET start == Max(s.nextStartTimeRef, s.currentTime[ctx])
      id == s.created + 1
  IN [s EXCEPT !.sources = @ \cup {[id |-> id, ctx |-> ctx, start |-> start,
                                    duration |-> duration]},
               !.created = id,
               !.nextStartTimeRef = start + duration,
               !.activeSourcesRef = @ \cup {id}]

\* source.onended
onended(s, id) ==
  [s EXCEPT !.sources = {src \in @ : src.id # id},
            !.activeSourcesRef = @ \ {id}]

\* the flush of the pending user text, of the output delta and of turnComplete
\* the flush without the test of trim()
flushUserUntrimmed(s, eager) ==
  [setTranscript(s, AppendUser(s.currentInputTransRef), eager)
     EXCEPT !.currentInputTransRef = ""]

flushUser(s, eager) ==
  IF ~IsBlank(s.currentInputTransRef)
  THEN [setTranscript(s, AppendUser(s.currentInputTransRef), eager)
          EXCEPT !.currentInputTransRef = ""]
  ELSE s

\* onInputTranscription that also emits the delta to the log
onInputTranscriptionToLog(s, text) ==
  [s EXCEPT !.currentInputTransRef = @ \o text,
            !.updateQueue = Append(@, AppendUser(text))]

onInputTranscription(s, text) ==
  [s EXCEPT !.currentInputTransRef = @ \o text]

onOutputTranscription(s, text, eager) ==
  setTranscript([flushUser(s, eager) EXCEPT !.currentOutputTransRef = @ \o text],
                UpsertAssistant, eager)

onTurnComplete(s, eager) ==
  LET s1 == flushUser(s, eager)
  IN IF s1.currentOutputTransRef # ""
     THEN [setTranscript(s1, Finalize, eager)
             EXCEPT !.currentOutputTransRef = ""]
     ELSE s1

\* "Transcription Handling" to the end of the handler
transcription(s, m, eager) ==
  LET s1 == IF m.inputTranscription.present
            THEN onInputTranscription(s, m.inputTranscription.text)
            ELSE s
      s2 == IF m.outputTranscription.present
            THEN onOutputTranscription(s1, m.outputTranscription.text, eager)
            ELSE s1
  IN IF m.turnComplete THEN onTurnComplete(s2, eager) ELSE s2

\* afterDecode that skips the audio of a payload it cannot decode and goes
\* on to the transcription handling
afterDecodeSkippingAudio(s, m, ctx, eager) ==
  IF m.audio = BadAudio
  THEN transcription(s, m, eager)
  ELSE IF CanSchedule(s, ctx)
       THEN transcription(schedule(s, ctx, m.audio), m, eager)
       ELSE s

\* the handler from decodeBase64 on, for the context it captured: an
\* exception of the decode ends it, as one of source.connect does
afterDecode(s, m, ctx, eager) ==
  IF m.audio # BadAudio /\ CanSchedule(s, ctx)
  THEN transcription(schedule(s, ctx, m.audio), m, eager)
  ELSE s

\* the handler from its start to its end or to the await it is suspended at
onmessage(s, m, suspends, eager) ==
  IF m.interrupted
  THEN interrupted(s)
  ELSE IF /\ m.audio # NoAudio
          /\ s.outputAudioContextRef # Null
          /\ s.outputNodeRef # Null
       THEN IF suspends
            THEN [s EXCEPT !.handlers =
                    Append(@, [msg |-> m, ctx |-> s.outputAudioContextRef])]
            ELSE afterDecode(s, m, s.outputAudioContextRef, eager)
       ELSE transcription(s, m, eager)

\* the first suspended handler resumes
resume(s, eager) ==
  afterDecode([s EXCEPT !.handlers = Tail(@)],
              Head(s.handlers).msg, Head(s.handlers).ctx, eager)

(***************************************************************************)
(* SmartTools.                                                             *)
(***************************************************************************)
\* Array.prototype.slice with one argument: the elements from index start on
slice(seq, start) == SubSeq(seq, start + 1, Len(seq))

\* the state of a SmartTools that has just mounted: every useState at its
\* initial value, then the effect that loads the stored history
mount(s) ==
  [s EXCEPT !.activeTool = "FAST", !.inputText = "", !.isProcessing = FALSE,
            !.resultText = "", !.toolError = NoError,
            !.currentHistoryId = "",
            !.history = IF s.localStorage # <<>> THEN s.localStorage[1]
                        ELSE <<>>]

\* SmartTools unmounts: its state is gone (kept here at the initial values),
\* a suspended executeTool goes on with setters that no longer do anything
unmount(s) ==
  [s EXCEPT !.activeTool = "FAST", !.inputText = "", !.isProcessing = FALSE,
            !.resultText = "", !.toolError = NoError,
            !.currentHistoryId = "", !.history = <<>>,
            !.toolRun = IF @ = <<>> THEN <<>>
                        ELSE <<[@[1] EXCEPT !.mounted = FALSE]>>]

\* saveToHistory as the closure of the render in which executeTool was
\* called: run.history is the history of that render
saveToHistory(s, run, result) ==
  LET newItem == [id |-> toString(s.now), tool |-> run.tool,
                  query |-> run.query, result |-> result,
                  timestamp |-> s.now]
      updated == slice(<<newItem>> \o run.history, HistorySlice)
  IN IF run.mounted
     THEN [s EXCEPT !.history = updated, !.localStorage = <<updated>>,
                    !.currentHistoryId = newItem.id]
     ELSE [s EXCEPT !.localStorage = <<updated>>]

handleContentUpdate(s, newContent) ==
  LET updatedHistory ==
        [i \in 1..Len(s.history) |->
           IF s.history[i].id = s.currentHistoryId
           THEN [s.history[i] EXCEPT !.result = newContent]
           ELSE s.history[i]]
      s1 == [s EXCEPT !.resultText = newContent]
  IN IF s.currentHistoryId # ""
     THEN [s1 EXCEPT !.history = updatedHistory,
                     !.localStorage = <<updatedHistory>>]
     ELSE s1

\* onClick of a tool's button
selectTool(s, tool) ==
  [s EXCEPT !.activeTool = tool, !.resultText = "", !.toolError = NoError,
            !.currentHistoryId = ""]

\* executeTool() up to the await of its query
executeTool(s) ==
  LET query == s.inputText
  IN IF query = "" \/ s.isProcessing
     THEN s
     ELSE [s EXCEPT !.inputText = "", !.isProcessing = TRUE,
                    !.resultText = "", !.toolError = NoError,
                    !.toolRun = <<[tool |-> s.activeTool, query |-> query,
                                   history |-> s.history,
                                   mounted |-> TRUE]>>]

\* executeTool after its query resolved with text
executeToolResolved(s, text) ==
  LET run == s.toolRun[1]
      s1 == IF run.mounted THEN [s EXCEPT !.resultText = text] ELSE s
      s2 == saveToHistory(s1, run, text)
  IN [s2 EXCEPT !.isProcessing = FALSE, !.toolRun = <<>>]

\* executeTool after its query rejected with an error of message msg
executeToolRejected(s, msg) ==
  LET run == s.toolRun[1]
      msg1 == IF msg = "" THEN MsgUnexpected ELSE msg
      msg2 == IF Includes404(msg1) THEN MsgToolUnavailable ELSE msg1
      s1 == IF run.mounted THEN [s EXCEPT !.toolError = Err(msg2)] ELSE s
  IN [s1 EXCEPT !.isProcessing = FALSE, !.toolRun = <<>>]

(***************************************************************************)
(* The PCM codec (utils/audio): encode is createPcmBlob, decodeToFloat is  *)
(* what decodeAudioData makes of the bytes.                                *)
(***************************************************************************)
\* a sample clamped to [-1, 1]
Clamp(n) ==
  IF n < -SampleDen THEN -SampleDen ELSE IF n > SampleDen THEN SampleDen ELSE n

\* the quotient a / b, b > 0, as an integer: toward zero, or to the nearest
\* integer with halves away from zero
Round(a, b, rounding) ==
  LET m == IF a >= 0 THEN a ELSE -a
      q == IF rounding = "trunc" THEN m \div b ELSE (2 * m + b) \div (2 * b)
  IN IF a >= 0 THEN q ELSE -q

\* the clamped sample scaled to the signed 16-bit range: 1 takes the largest
\* value of the range
ToInt16(n, rounding) ==
  LET v == Round(Clamp(n) * Int16Scale, SampleDen, rounding)
  IN IF v > Int16Scale - 1 THEN Int16Scale - 1 ELSE v

\* the two bytes of a signed 16-bit integer, low byte first
LittleEndian(v) ==
  LET u == v % (2 * Int16Scale)
  IN <<u % 256, u \div 256>>

\* encode that scales by Int16Scale - 1
encodeScaledShort(frame, rounding) ==
  [data |-> [i \in 1..(2 * Len(frame)) |->
               LittleEndian(Round(Clamp(frame[(i + 1) \div 2])
                                    * (Int16Scale - 1),
                                  SampleDen, rounding))[2 - (i % 2)]],
   mimeType |-> "audio/pcm"]

encode(frame, rounding) ==
  [data |-> [i \in 1..(2 * Len(frame)) |->
               LittleEndian(ToInt16(frame[(i + 1) \div 2], rounding))[2 - (i % 2)]],
   mimeType |-> "audio/pcm"]

\* the signed 16-bit integer of two bytes, low byte first
FromLittleEndian(lo, hi) ==
  LET u == lo + 256 * hi
  IN IF u >= Int16Scale THEN u - 2 * Int16Scale ELSE u

\* the samples of the bytes, each the numerator of a fraction of Int16Scale;
\* bytes of odd length are a DecodeError
decodeToFloat(bytes) ==
  IF Len(bytes) % 2 # 0
  THEN [decodeError |-> TRUE, samples |-> <<>>]
  ELSE [decodeError |-> FALSE,
        samples |-> [i \in 1..(Len(bytes) \div 2) |->
                       FromLittleEndian(bytes[2 * i - 1], bytes[2 * i])]]

(***************************************************************************)
(* Actions: the session's lifecycle.                                       *)
(***************************************************************************)
\* disconnect() runs cleanup in its own task unless it waits on the promise
DisconnectCleans ==
  sessionRef = Null \/ promises[sessionRef] # "pending"

\* the history after a task of the session's lifecycle.  call: "connect",
\* "disconnect" or "none", the call of the public API the task made;
\* ranCleanup: the task ran cleanup; failed: it ran connect's catch
DidLifecycle(call, ranCleanup, failed) ==
  LET h == [hist EXCEPT !.failedSetup = failed,
                        !.onerror = <<>>,
                        !.micFailed = <<>>,
                        !.tick = <<>>,
                        !.lateSend = FALSE,
                        !.chains = <<>>,
                        !.disc = IF call = "disconnect"
                                 THEN <<[k |-> sessionRef,
                                         pending |-> ~DisconnectCleans]>>
                                 ELSE <<>>,
                        !.idle = IF ranCleanup THEN TRUE
                                 ELSE IF call = "connect" /\ apiKey THEN FALSE
                                 ELSE @,
                        !.disconnected = CASE call = "disconnect" -> TRUE
                                           [] call = "connect" -> FALSE
                                           [] OTHER -> @]
  IN IF ranCleanup
     THEN [h EXCEPT !.lastEvent = "none", !.turn.clean = FALSE,
                    !.scheduled = <<>>, !.sinceCut = <<>>,
                    !.heard.sinceReset = ""]
     ELSE h

\* the bounds on the calls a toggle may make
CanToggle ==
  IF connectionState = "CONNECTED"
  THEN sessionRef # Null /\ promises[sessionRef] = "pending"
         => pendingDisconnects[sessionRef] < MaxPendingDisconnects
  ELSE apiKey => calls < MaxConnects

\* which AudioContext constructor may throw in the connect() a toggle makes
CtxFailures == IF connectionState = "CONNECTED" \/ ~apiKey
               THEN {"none"} ELSE {"none", "input", "output"}

Toggle(ctxFail) ==
  Commit(handleToggleConnection(St, ctxFail),
         IF connectionState = "CONNECTED"
         THEN DidLifecycle("disconnect", DisconnectCleans, FALSE)
         ELSE DidLifecycle("connect", apiKey /\ ctxFail # "none",
                           apiKey /\ ctxFail # "none"))

\* the microphone button: disabled={isConnecting}
ClickMic ==
  /\ view = "live" /\ ~isSettingsOpen
  /\ connectionState # "CONNECTING"
  /\ CanToggle
  /\ \E ctxFail \in CtxFailures : Toggle(ctxFail)

\* the keydown handler: Space, in the live view, with the settings closed
PressSpace ==
  /\ view = "live" /\ ~isSettingsOpen
  /\ CanToggle
  /\ \E ctxFail \in CtxFailures : Toggle(ctxFail)

OpenSettings ==
  /\ ~isSettingsOpen
  /\ Commit([St EXCEPT !.isSettingsOpen = TRUE], hist)

CloseSettings ==
  /\ isSettingsOpen
  /\ Commit([St EXCEPT !.isSettingsOpen = FALSE], hist)

SelectMode ==
  /\ isSettingsOpen
  /\ connectionState = "CONNECTED" => CanToggle
  /\ \E mode \in Modes :
       Commit(onSelectMode(St, mode),
              DidLifecycle(IF connectionState = "CONNECTED"
                           THEN "disconnect" ELSE "none",
                           connectionState = "CONNECTED" /\ DisconnectCleans,
                           FALSE))

SelectVoice ==
  /\ isSettingsOpen
  /\ connectionState = "CONNECTED" => CanToggle
  /\ \E voice \in Voices :
       Commit(onSelectVoice(St, voice),
              DidLifecycle(IF connectionState = "CONNECTED"
                           THEN "disconnect" ELSE "none",
                           connectionState = "CONNECTED" /\ DisconnectCleans,
                           FALSE))

\* the user clicks the mode that is selected already, its voice being the
\* voice selected
ReselectMode ==
  /\ isSettingsOpen
  /\ connectionState = "CONNECTED" => CanToggle
  /\ VoiceOf(activeMode) = voiceName
  /\ Commit(onSelectMode(St, activeMode),
            DidLifecycle(IF connectionState = "CONNECTED"
                         THEN "disconnect" ELSE "none",
                         connectionState = "CONNECTED" /\ DisconnectCleans,
                         FALSE))

\* the user clicks the voice that is selected already
ReselectVoice ==
  /\ isSettingsOpen
  /\ connectionState = "CONNECTED" => CanToggle
  /\ Commit(onSelectVoice(St, voiceName),
            DidLifecycle(IF connectionState = "CONNECTED"
                         THEN "disconnect" ELSE "none",
                         connectionState = "CONNECTED" /\ DisconnectCleans,
                         FALSE))

SetView ==
  /\ ~isSettingsOpen
  /\ Commit(IF view = "live" THEN mount([St EXCEPT !.view = "tools"])
                              ELSE unmount([St EXCEPT !.view = "live"]),
            [hist EXCEPT !.saved = <<>>])

\* getUserMedia resolves
MicGranted ==
  \E k \in ConnectIds :
    /\ connectPc[k] = "awaitMic"
    /\ Commit(micGranted(St, k), DidLifecycle("none", FALSE, FALSE))

\* getUserMedia rejects
MicDenied ==
  \E k \in ConnectIds, name \in MicErrorNames, msg \in ErrorMessages :
    /\ connectPc[k] = "awaitMic"
    /\ Commit(micDenied(St, k, name, msg),
              [DidLifecycle("none", TRUE, TRUE) EXCEPT
                 !.micFailed = <<[k |-> k, name |-> name, msg |-> msg]>>])

\* the socket opens: onopen runs, then the session promise resolves
TransportOpen ==
  \E k \in ConnectIds :
    /\ transports[k] = "opening"
    /\ promises[k] = "pending"
    /\ Commit(settle([onopen([St EXCEPT !.transports[k] = "open"])
                        EXCEPT !.promises[k] = "resolved",
                               !.connectPc[k] = "done"], k),
              [DidLifecycle("none", pendingDisconnects[k] > 0, FALSE) EXCEPT
                 !.lateSend = hist.idle /\ pendingSends[k] > 0,
                 !.chains = IF pendingDisconnects[k] > 0 THEN <<k>> ELSE <<>>])

\* live.connect rejects, for a socket that did not open: connect's catch
\* runs, then the waiting chains
TransportReject ==
  \E k \in ConnectIds, msg \in ErrorMessages :
    /\ transports[k] \in {"opening", "errored", "closed"}
    /\ promises[k] = "pending"
    /\ Commit(settle(catch([St EXCEPT !.transports[k] =
                                        IF @ = "opening" THEN "failed" ELSE @,
                                      !.promises[k] = "rejected",
                                      !.connectPc[k] = "done"], msg), k),
              [DidLifecycle("none", TRUE, TRUE) EXCEPT
                 !.chains = IF pendingDisconnects[k] > 0 THEN <<k>> ELSE <<>>])

\* the socket reports an error; its close event is to follow
TransportError ==
  \E k \in ConnectIds, msg \in ErrorMessages :
    /\ transports[k] \in {"opening", "open", "closing"}
    /\ Commit(onerror([St EXCEPT !.transports[k] = "errored"], msg),
              [DidLifecycle("none", TRUE, FALSE) EXCEPT
                 !.onerror = <<[msg |-> msg, before |-> error]>>])

\* the socket closes
TransportClose ==
  \E k \in ConnectIds :
    /\ transports[k] \in {"opening", "open", "closing", "errored"}
    /\ Commit(onclose([St EXCEPT !.transports[k] = "closed"]),
              DidLifecycle("none", TRUE, FALSE))

\* a ScriptProcessor of a running context fires onaudioprocess
AudioTick ==
  /\ hist.ticks < MaxTicks
  /\ \E c \in processors : contexts[c] = "running"
  /\ LET s2 == onaudioprocess(St)
     IN Commit(s2,
               [hist EXCEPT
                  !.ticks = @ + 1,
                  !.lateSend = hist.idle /\ s2.framesSent # framesSent,
                  !.tick = <<[held |-> sessionRef # Null,
                              handed |-> \/ s2.framesSent # framesSent
                                         \/ s2.pendingSends # pendingSends,
                              sentNow |-> s2.framesSent # framesSent,
                              connected |-> connectionState = "CONNECTED"]>>])

\* one animation frame
VisualizerTick ==
  /\ TRUE
  /\ \E inputLevel \in Levels, outputLevel \in Levels :
       Commit(updateVisualizer(St, inputLevel, outputLevel),
              hist)

(***************************************************************************)
(* Actions: the transport's messages, the renders and the clocks.          *)
(***************************************************************************)
\* the user-role messages of a log, in order
RECURSIVE UserMessages(_)
UserMessages(log) ==
  IF log = <<>> THEN <<>>
  ELSE IF Head(log).role = "user"
       THEN <<Head(log)>> \o UserMessages(Tail(log))
       ELSE UserMessages(Tail(log))

\* the history after the transcription part of message m, which left state s2
HistTranscription(h, m, s2) ==
  LET hasIn == m.inputTranscription.present
      hasOut == m.outputTranscription.present
      cur == [h.turn EXCEPT
                !.input = IF hasIn THEN @ \o m.inputTranscription.text ELSE @,
                !.output = IF hasOut THEN @ \o m.outputTranscription.text ELSE @,
                !.outputs = IF hasOut THEN @ + 1 ELSE @,
                !.overlap = @ \/ (hasIn /\ h.turn.outputs > 0)]
      now1 == IF hasIn
              THEN [sinceFlush |-> h.heard.sinceFlush \o m.inputTranscription.text,
                    sinceReset |-> h.heard.sinceReset \o m.inputTranscription.text]
              ELSE h.heard
      flushed == Len(UserMessages(Rendered(s2))) > Len(UserMessages(Rendered(St)))
      h1 == [h EXCEPT !.heard = IF flushed
                                THEN [sinceFlush |-> "", sinceReset |-> ""]
                                ELSE now1,
                      !.flushes = IF flushed THEN Append(@, now1) ELSE @]
  IN IF m.turnComplete
     THEN [h1 EXCEPT !.lastEvent = "turnComplete", !.done = cur,
                     !.turn = NewTurn(Len(Rendered(s2))),
                     !.sinceCut = <<>>]
     ELSE [h1 EXCEPT !.lastEvent = IF hasOut THEN "output"
                                   ELSE IF hasIn THEN "input" ELSE @,
                     !.turn = cur,
                     !.sinceCut =
                        IF hasOut /\ @ # <<>>
                        THEN <<[@[1] EXCEPT
                                  !.text = @ \o m.outputTranscription.text]>>
                        ELSE @]

\* the history after the handler scheduled the unit it decoded, if it did:
\* ahead says that the cursor was at or ahead of the clock, clock is the
\* output clock when the unit was scheduled
HistSchedule(h, s, s2, ctx) ==
  IF s2.created > s.created
  THEN LET src == CHOOSE x \in s2.sources : x.id = s2.created
       IN [h EXCEPT !.scheduled =
             Append(@, [start |-> src.start, duration |-> src.duration,
                        ahead |-> s.nextStartTimeRef >= s.currentTime[ctx],
                        clock |-> s.currentTime[ctx]])]
  ELSE h

\* cut is the cursor the interruption found: the end of the audio queued
HistInterrupted(h) ==
  [h EXCEPT !.lastEvent = "interrupted", !.turn.clean = FALSE,
            !.scheduled = <<>>, !.cut = nextStartTimeRef,
            !.sinceCut = <<[lost |-> currentOutputTransRef, text |-> ""]>>]

\* a transport that is open, or closing and not yet closed, delivers
CanDeliver ==
  /\ hist.msgs < MaxMsgs
  /\ \E k \in ConnectIds : transports[k] \in {"open", "closing"}

\* message m is delivered and its handler runs to its end or to an await
Deliver(m, suspends, eager) ==
  LET s2 == onmessage(St, m, suspends, eager)
      h == [hist EXCEPT
              !.msgs = @ + 1,
              !.reordered = FALSE,
              !.dropped = /\ m.audio = BadAudio /\ ~suspends
                          /\ outputAudioContextRef # Null
                          /\ outputNodeRef # Null,
              !.overtaken =
                 IF Len(s2.handlers) > Len(handlers)
                 THEN Append(@, FALSE)
                 ELSE [i \in DOMAIN @ |->
                         @[i] \/ m.interrupted \/ m.audio = NoAudio],
              !.startedStale = FALSE,
              !.stale =
                 IF Len(s2.handlers) > Len(handlers)
                 THEN Append(@, FALSE)
                 ELSE [i \in DOMAIN @ |-> @[i] \/ m.interrupted]]
      takesAudio == /\ m.audio # NoAudio
                    /\ outputAudioContextRef # Null
                    /\ outputNodeRef # Null
  IN Commit(s2,
            IF m.interrupted THEN HistInterrupted(h)
            ELSE IF takesAudio /\ (suspends \/ ~CanSchedule(St, outputAudioContextRef))
                 THEN h
                 ELSE HistTranscription(
                        HistSchedule(h, St, s2, outputAudioContextRef), m, s2))

DeliverText ==
  /\ CanDeliver
  /\ \E m \in TextMessages, eager \in BOOLEAN : Deliver(m, FALSE, eager)

DeliverInterrupted ==
  /\ CanDeliver
  /\ Deliver(InterruptedMessage, FALSE, FALSE)

DeliverAudio ==
  /\ CanDeliver
  /\ \E m \in AudioMessages, suspends \in BOOLEAN : Deliver(m, suspends, FALSE)

\* the await of the first suspended handler settles
ResumeHandler ==
  /\ handlers # <<>>
  /\ \E eager \in BOOLEAN :
       LET s2 == resume(St, eager)
           h == [hist EXCEPT
                   !.overtaken = Tail(@),
                   !.dropped = Head(handlers).msg.audio = BadAudio,
                   !.reordered = Head(hist.overtaken) /\ s2.created > created,
                   !.stale = Tail(@),
                   !.startedStale = Head(hist.stale) /\ s2.created > created]
       IN Commit(s2,
                 IF CanSchedule(St, Head(handlers).ctx)
                 THEN HistTranscription(
                        HistSchedule(h, St, s2, Head(handlers).ctx),
                        Head(handlers).msg, s2)
                 ELSE h)

\* a scheduled unit plays to its end
SourceEnded ==
  \E src \in sources :
    /\ contexts[src.ctx] = "running"
    /\ currentTime[src.ctx] >= src.start + src.duration
    /\ Commit(onended(St, src.id), hist)

\* React renders
Render ==
  /\ updateQueue # <<>>
  /\ Commit(render(St), hist)

\* Date.now() advances
WallClockTick ==
  /\ now < MaxNow
  /\ Commit([St EXCEPT !.now = @ + 1], hist)

\* the user types a query
TypeQuery ==
  /\ view = "tools" /\ ~isProcessing
  /\ \E text \in Queries \cup {""} :
       /\ text # inputText
       /\ Commit([St EXCEPT !.inputText = text],
                 [hist EXCEPT !.saved = <<>>])

\* the user clicks the button of another tool
SelectTool ==
  /\ view = "tools"
  /\ \E tool \in Tools \ {activeTool} :
       Commit(selectTool(St, tool), [hist EXCEPT !.saved = <<>>])

\* the user sends the query
ExecuteTool ==
  /\ view = "tools" /\ inputText # "" /\ ~isProcessing
  /\ Commit(executeTool(St), [hist EXCEPT !.saved = <<>>])

\* the query of the suspended executeTool resolves
ToolResolved ==
  /\ toolRun # <<>>
  /\ \E text \in ToolResults :
       Commit(executeToolResolved(St, text),
              [hist EXCEPT !.saved =
                 IF toolRun[1].mounted
                 THEN <<[query |-> toolRun[1].query, result |-> text]>>
                 ELSE <<>>])

\* the query of the suspended executeTool rejects
ToolRejected ==
  /\ toolRun # <<>>
  /\ \E msg \in ToolErrorMessages :
       Commit(executeToolRejected(St, msg), [hist EXCEPT !.saved = <<>>])

\* the user edits the result shown
EditContent ==
  /\ view = "tools" /\ ~isProcessing /\ resultText # ""
  /\ \E newContent \in Edits \ {resultText} :
       Commit(handleContentUpdate(St, newContent),
              [hist EXCEPT !.saved = <<>>])

\* the frame of the tick is encoded
Encode ==
  /\ pcmBlob = <<>>
  /\ \E rounding \in Roundings :
       Commit([St EXCEPT !.pcmBlob = <<encode(inputData, rounding)>>], hist)

\* the bytes of the blob are decoded
Decode ==
  /\ pcmBlob # <<>>
  /\ channelData = <<>>
  /\ Commit([St EXCEPT !.channelData = <<decodeToFloat(pcmBlob[1].data)>>],
            hist)

\* currentTime of the output context in use advances
ClockTick ==
  /\ outputAudioContextRef # Null
  /\ contexts[outputAudioContextRef] = "running"
  /\ currentTime[outputAudioContextRef] < MaxClock
  /\ Commit([St EXCEPT !.currentTime[outputAudioContextRef] = @ + 1], hist)

\* The lifecycle.  No handler of the lifecycle reads the persona or the voice
\* (connect hands them to live.connect and that is all), so here the user
\* clicks, in the settings, the mode and the voice that are selected:
\* SpecSettings has the clicks that change them.
NextSession ==
  \/ ClickMic
  \/ PressSpace
  \/ OpenSettings
  \/ CloseSettings
  \/ ReselectMode
  \/ ReselectVoice
  \/ SetView
  \/ MicGranted
  \/ MicDenied
  \/ TransportOpen
  \/ TransportReject
  \/ TransportError
  \/ TransportClose
  \/ VisualizerTick

SpecSession == Init /\ [][NextSession]_vars

\* the settings of a configured client, while its session comes and goes
NextSettings ==
  \/ ClickMic
  \/ OpenSettings
  \/ CloseSettings
  \/ SelectMode
  \/ SelectVoice
  \/ MicGranted
  \/ TransportOpen
  \/ TransportClose

SpecSettings == InitWith(TRUE) /\ [][NextSettings]_vars

\* the transcript of a configured client whose transport delivers text
NextTranscript ==
  \/ ClickMic
  \/ MicGranted
  \/ TransportOpen
  \/ TransportClose
  \/ DeliverText
  \/ DeliverInterrupted
  \/ Render
  \/ WallClockTick

SpecTranscript == InitWith(TRUE) /\ [][NextTranscript]_vars

\* the playback of a configured client whose transport delivers audio
NextPlayback ==
  \/ ClickMic
  \/ MicGranted
  \/ TransportOpen
  \/ TransportClose
  \/ DeliverAudio
  \/ DeliverInterrupted
  \/ ResumeHandler
  \/ SourceEnded
  \/ ClockTick

SpecPlayback == InitWith(TRUE) /\ [][NextPlayback]_vars

\* the capture of a client whose user may toggle at any time
NextCapture ==
  \/ ClickMic
  \/ PressSpace
  \/ MicGranted
  \/ TransportOpen
  \/ TransportReject
  \/ TransportError
  \/ TransportClose
  \/ AudioTick

SpecCapture == InitWith(TRUE) /\ [][NextCapture]_vars

\* SmartTools and its history
NextHistory ==
  \/ SetView
  \/ TypeQuery
  \/ SelectTool
  \/ ExecuteTool
  \/ ToolResolved
  \/ ToolRejected
  \/ EditContent
  \/ WallClockTick

SpecHistory == InitWith(TRUE) /\ [][NextHistory]_vars

\* the codec, on every frame
InitCodec ==
  /\ InitBase
  /\ apiKey = TRUE
  /\ inputData \in Frames

NextCodec ==
  \/ Encode
  \/ Decode

SpecCodec == InitCodec /\ [][NextCodec]_vars

(***************************************************************************)
(* The session's lifecycle: what is held, and the claims about it.         *)
(***************************************************************************)
OpenTransports == {k \in ConnectIds : transports[k] \in {"opening", "open"}}
LiveStreams == {k \in ConnectIds : streams[k] = "live"}
RunningContexts == {c \in CtxIds : contexts[c] = "running"}

\* no connect() is suspended at an await, no disconnect() chain waits on a
\* promise and no transport is between close() and its close event
Settled ==
  \A k \in ConnectIds :
    /\ connectPc[k] \notin {"awaitMic", "awaitSession"}
    /\ pendingDisconnects[k] = 0
    /\ transports[k] \notin {"closing", "errored"}

\* C5: at most one session is active: never more than one transport open or
\* opening, never more than one live microphone stream, never more than one
\* pair of running audio contexts, whatever the UI actions.
C5_AtMostOneSession ==
  /\ Cardinality(OpenTransports) <= 1
  /\ Cardinality(LiveStreams) <= 1
  /\ Cardinality(RunningContexts) <= 2

\* C6: once disconnect() was called and no connect() since, and every await
\* has settled, the state is Disconnected and no microphone stream, audio
\* context or transport is held.
C6_DisconnectUnwinds ==
  (hist.disconnected /\ Settled) =>
    /\ connectionState = "DISCONNECTED"
    /\ streamRef = Null /\ LiveStreams = {}
    /\ inputAudioContextRef = Null /\ outputAudioContextRef = Null
    /\ RunningContexts = {}
    /\ sessionRef = Null /\ OpenTransports = {}

\* C7: once connect's failure handler has run, connectionState is Error and
\* error holds a non-empty message.
C7_FailureLeavesError ==
  hist.failedSetup =>
    /\ connectionState = "ERROR"
    /\ error # NoError /\ error # Err("")

\* C8: from every reachable state cleanup() leaves Disconnected and volume 0,
\* and a second cleanup() right after it changes nothing.
C8_CleanupIdempotent ==
  LET s == cleanup(St)
  IN /\ s.connectionState = "DISCONNECTED"
     /\ s.volume = 0
     /\ cleanup(s) = s

\* C8 witness: cleanup ran on a session that had its audio contexts and was
\* refused the microphone, and is about to run on a connected session with a
\* non-zero volume.
C8_Witness ==
  /\ \E k \in ConnectIds :
       streams[k] = "denied" /\ contexts[InputCtxOf(k)] = "closed"
  /\ connectionState = "CONNECTED" /\ volume > 0 /\ streamRef # Null

\* C9: with no credential, connect() sets error to the API-key message and
\* changes nothing else: the state is Disconnected, no audio context exists,
\* no microphone was requested and no transport was opened.
C9_MissingKey ==
  ~apiKey =>
    \A ctxFail \in {"none", "input", "output"} :
      LET s == connect(St, ctxFail)
      IN /\ s = [St EXCEPT !.error = Err(MsgApiKey)]
         /\ s.connectionState = "DISCONNECTED"
         /\ \A c \in CtxIds : s.contexts[c] = "none"
         /\ \A k \in ConnectIds :
              s.streams[k] = "none" /\ s.transports[k] = "none"

\* C9 witness: connect() was called with no credential.
C9_Witness == ~apiKey /\ error = Err(MsgApiKey)

(***************************************************************************)
(* The transcript log, and the claims about it.  They are stated about the *)
(* log a render has shown: transcript, with no update queued.              *)
(***************************************************************************)
\* the indices of the log's entries that the turn whose record is turn added
EntriesOf(turn) == (turn.base + 1) .. Len(transcript)

Partials == {i \in DOMAIN transcript : transcript[i].isPartial}

\* C1: after turnComplete, the user message of the turn is at a strictly
\* smaller index of the log than the assistant message of the same turn,
\* for a turn that no interruption and no cleanup fell into.
C1_UserBeforeAssistant ==
  (hist.lastEvent = "turnComplete" /\ hist.done.clean /\ updateQueue = <<>>) =>
    \A i, j \in EntriesOf(hist.done) :
      (transcript[i].role = "user" /\ transcript[j].role = "assistant")
        => i < j

\* C2: in every reachable state the log holds at most one message with
\* isPartial = true, and that one is the last element of the log.
C2_OnePartialAtTail ==
  /\ Cardinality(Partials) <= 1
  /\ \A i \in Partials : i = Len(transcript)

\* C3: within a turn, after an output delta, the log holds exactly one partial
\* assistant entry of the turn, and its text is the concatenation of the
\* turn's output deltas so far; input deltas may have come between them.
C3_OnePartialPerTurn ==
  (hist.lastEvent = "output" /\ hist.turn.clean /\ updateQueue = <<>>) =>
    LET mine == {i \in EntriesOf(hist.turn) :
                   transcript[i].role = "assistant" /\ transcript[i].isPartial}
    IN /\ Cardinality(mine) = 1
       /\ \A i \in mine : transcript[i].text = hist.turn.output

\* C4: after turnComplete no message of the log is partial, and the assistant
\* entry of a turn that had output deltas holds their concatenation.
C4_TurnCompleteFinalizes ==
  (hist.lastEvent = "turnComplete" /\ hist.done.clean /\ updateQueue = <<>>) =>
    /\ Partials = {}
    /\ hist.done.outputs > 0 =>
         \E i \in EntriesOf(hist.done) :
           /\ transcript[i].role = "assistant"
           /\ transcript[i].text = hist.done.output

(***************************************************************************)
(* Playback, and the claims about it.                                      *)
(***************************************************************************)
\* C10: of the units scheduled with no interruption between them, each
\* starts no earlier than the one before it ends, and one scheduled while the
\* cursor was at or ahead of the clock starts exactly where the one before
\* it ends.
C10_NoOverlap ==
  \A k \in 1 .. (Len(hist.scheduled) - 1) :
    LET prev == hist.scheduled[k]
        unit == hist.scheduled[k + 1]
    IN /\ unit.start >= prev.start + prev.duration
       /\ unit.ahead => unit.start = prev.start + prev.duration

\* C10 witness: three units, the second scheduled with the cursor ahead of
\* the clock and the third after the clock had passed the cursor.
C10_Witness ==
  /\ Len(hist.scheduled) = 3
  /\ hist.scheduled[2].ahead
  /\ hist.scheduled[2].start > hist.scheduled[1].start
  /\ ~hist.scheduled[3].ahead
  /\ hist.scheduled[3].start >
       hist.scheduled[2].start + hist.scheduled[2].duration

\* C11: after an interruption the in-flight set is empty and the cursor is 0
\* until a unit is scheduled, and the first unit scheduled after it starts at
\* the output clock of its scheduling.
C11_InterruptResets ==
  hist.lastEvent = "interrupted" =>
    IF hist.scheduled = <<>>
    THEN activeSourcesRef = {} /\ nextStartTimeRef = 0
    ELSE hist.scheduled[1].start = hist.scheduled[1].clock

\* C11 witness: the interruption found audio queued beyond the clock, and the
\* unit scheduled after it starts before the end of that audio.
C11_Witness ==
  /\ hist.lastEvent = "interrupted"
  /\ hist.scheduled # <<>>
  /\ hist.scheduled[1].start > 0
  /\ hist.scheduled[1].start < hist.cut

\* C12: messages are handled in arrival order: no handler applies its
\* effects on the scheduler after the handler of a later message has applied
\* its own, also when it was suspended at an await.
C12_ArrivalOrder == ~hist.reordered

\* C13: whenever connectionState is Disconnected, no microphone stream is
\* held, no audio context runs, no transport handle is held, the in-flight
\* set is empty and the cursor is 0.
C13_NoHalfTornDown ==
  connectionState = "DISCONNECTED" =>
    /\ streamRef = Null /\ LiveStreams = {}
    /\ RunningContexts = {}
    /\ sessionRef = Null
    /\ activeSourcesRef = {} /\ nextStartTimeRef = 0

\* C25: a step that schedules a unit at clock t with the cursor at c starts
\* the unit at max(c, t), moves the cursor to max(c, t) + duration and adds
\* the unit to the in-flight set; every other step that moves the cursor is
\* an interruption or a cleanup and moves it to 0; a unit leaves the
\* in-flight set when it has played to its end, or with all the others at an
\* interruption or a cleanup.
C25_Scheduling ==
  [][LET new == {src \in sources' : src.id = created'}
         scheduling == created' = created + 1
         reset == \/ hist'.msgs > hist.msgs /\ hist'.lastEvent = "interrupted"
                  \/ hist'.idle
     IN /\ created' # created => scheduling
        /\ scheduling =>
             \A src \in new :
               /\ src.start = Max(nextStartTimeRef, currentTime[src.ctx])
               /\ src.duration \in Durations
               /\ nextStartTimeRef' = src.start + src.duration
               /\ activeSourcesRef' = activeSourcesRef \cup {src.id}
        /\ scheduling => new # {}
        /\ (nextStartTimeRef' # nextStartTimeRef /\ ~scheduling) =>
             nextStartTimeRef' = 0 /\ reset
        /\ (activeSourcesRef' # activeSourcesRef /\ ~scheduling) =>
             \/ activeSourcesRef' = {} /\ reset
             \/ /\ nextStartTimeRef' = nextStartTimeRef
                /\ \E src \in sources :
                     /\ activeSourcesRef' = activeSourcesRef \ {src.id}
                     /\ currentTime[src.ctx] >= src.start + src.duration]_vars

\* C25 witness: two units were scheduled, the second with the cursor ahead
\* of the clock, and the first has played to its end and left the in-flight
\* set.
C25_Witness ==
  /\ Len(hist.scheduled) = 2 /\ created = 2
  /\ hist.scheduled[2].ahead
  /\ hist.scheduled[2].start > hist.scheduled[2].clock
  /\ activeSourcesRef = {2}
  /\ nextStartTimeRef = hist.scheduled[2].start + hist.scheduled[2].duration

(***************************************************************************)
(* The error field, and the claims about it.                               *)
(***************************************************************************)
\* C14: after onerror the state is Disconnected; the error field holds the
\* generic connectivity message unless the error was a cancellation, and is
\* what it was before if it was one.
C14_OnErrorMessage ==
  hist.onerror # <<>> =>
    LET e == hist.onerror[1]
    IN /\ connectionState = "DISCONNECTED"
       /\ error = IF IncludesCancelled(e.msg) THEN e.before ELSE Err(MsgGeneric)

\* C15: the error field never holds the raw message of an exception that is
\* a cancellation.
C15_NoRawCancellation ==
  \A msg \in ErrorMessages : IncludesCancelled(msg) => error # Err(msg)

\* C16: after getUserMedia was rejected, the connect() it belongs to has
\* opened no transport, the audio contexts it created are closed, and the
\* error field holds the message of the kind of the rejection.
C16_MicFailureAborts ==
  hist.micFailed # <<>> =>
    LET f == hist.micFailed[1]
    IN /\ transports[f.k] = "none"
       /\ contexts[InputCtxOf(f.k)] = "closed"
       /\ contexts[OutputCtxOf(f.k)] = "closed"
       /\ error = Err(MicErrorMessage(f.name, f.msg))

\* messages whose audio fails to decode, with every combination of the
\* other fields
BadMessages ==
  [interrupted : {FALSE}, audio : {BadAudio},
   inputTranscription : {Absent, Present("hi")},
   outputTranscription : {Absent, Present("Hel")},
   turnComplete : BOOLEAN]

\* C17: a message whose audio fails to decode changes nothing: not the
\* connection state, the cursor, the in-flight set, the log or the
\* accumulators, whether the failure comes before or after an await; what
\* follows is handled as if the message had not come.
C17_DecodeFailureDrops ==
  (outputAudioContextRef # Null /\ outputNodeRef # Null) =>
    \A m \in BadMessages, eager \in BOOLEAN :
      /\ onmessage(St, m, FALSE, eager) = St
      /\ afterDecode(St, m, outputAudioContextRef, eager) = St

\* C17 witness: a decode failure ended the last handler, on a connected
\* session with a unit in flight.
C17_Witness ==
  /\ hist.dropped
  /\ connectionState = "CONNECTED"
  /\ activeSourcesRef # {} /\ nextStartTimeRef > 0

C19_AppendOnly ==
  [][/\ Len(transcript') >= Len(transcript)
     /\ \A i \in DOMAIN transcript :
          /\ transcript'[i].id = transcript[i].id
          /\ transcript'[i].role = transcript[i].role
          /\ transcript'[i].timestamp = transcript[i].timestamp
          /\ ~transcript[i].isPartial => transcript'[i] = transcript[i]]_vars

\* C19 witness: a finalized assistant message that kept its text when the
\* output delta of a second session came, which was appended after it.
C19_Witness ==
  /\ Len(transcript) = 2
  /\ transcript[1].role = "assistant" /\ ~transcript[1].isPartial
  /\ transcript[1].text = "Hel"
  /\ transcript[2].role = "assistant" /\ transcript[2].isPartial
  /\ transcript[2].text = "lo"
  /\ calls = 2

\* C20: when a query of SmartTools has just completed successfully, an item
\* holding that query and its result is the first element of history and of
\* the list stored under velocity_history, and the list has at most 50 items
C20_HistoryKeepsLatest ==
  hist.saved # <<>> =>
    /\ history # <<>>
    /\ history[1].query = hist.saved[1].query
    /\ history[1].result = hist.saved[1].result
    /\ localStorage = <<history>>
    /\ Len(history) <= HistorySlice

(***************************************************************************)
(* The codec, and the claim about it.                                      *)
(***************************************************************************)
\* C21: the blob of a frame holds two bytes per sample, and decoding it gives
\* as many samples as the frame has, each within 1/32768 of the frame's
\* sample clamped to [-1, 1] (of the sample itself when it lies in [-1, 1]).
C21_RoundTrip ==
  /\ pcmBlob # <<>> =>
       /\ Len(pcmBlob[1].data) = 2 * Len(inputData)
       /\ \A i \in DOMAIN pcmBlob[1].data : pcmBlob[1].data[i] \in 0..255
  /\ channelData # <<>> =>
       LET out == channelData[1].samples
       IN /\ ~channelData[1].decodeError
          /\ Len(out) = Len(inputData)
          /\ \A i \in DOMAIN inputData :
               LET d == Clamp(inputData[i]) * Int16Scale - out[i] * SampleDen
               IN /\ d <= SampleDen /\ -d <= SampleDen
                  /\ inputData[i] > SampleDen => out[i] = Int16Scale - 1
                  /\ inputData[i] < -SampleDen => out[i] = -Int16Scale

\* C21 witness: a frame of two samples went through encode and decode, the
\* first above 1 and clamped, the second negative and not a multiple of
\* 1/32768.
C21_Witness ==
  /\ channelData # <<>>
  /\ Len(inputData) = 2
  /\ inputData[1] > SampleDen
  /\ inputData[2] = -33
  /\ channelData[1].samples[2] < 0
  /\ channelData[1].samples[2] * SampleDen # inputData[2] * Int16Scale

(***************************************************************************)
(* Teardown, and the claims about it.                                      *)
(***************************************************************************)
\* C22: from every reachable state, cleanup() leaves every in-flight unit
\* stopped and the in-flight set empty, the tracks of the stream held stopped
\* and the stream handle cleared, both graphs held closed, every owned handle
\* cleared (transport, stream, both graphs, capture source, frame processor,
\* gain, compressor and both analyzers), volume 0, both accumulators empty,
\* the cursor 0 and the state Disconnected.
C22_CleanupClearsAll ==
  LET s == cleanup(St)
  IN /\ s.activeSourcesRef = {}
     /\ \A src \in s.sources : src.id \notin activeSourcesRef
     /\ streamRef # Null => s.streams[streamRef] = "stopped"
     /\ inputAudioContextRef # Null =>
          s.contexts[inputAudioContextRef] = "closed"
     /\ outputAudioContextRef # Null =>
          s.contexts[outputAudioContextRef] = "closed"
     /\ s.sessionRef = Null /\ s.streamRef = Null
     /\ s.inputAudioContextRef = Null /\ s.outputAudioContextRef = Null
     /\ s.inputSourceRef = Null /\ s.processorRef = Null
     /\ s.outputNodeRef = Null /\ s.compressorRef = Null
     /\ s.inputAnalyzerRef = Null /\ s.outputAnalyzerRef = Null
     /\ s.volume = 0
     /\ s.currentInputTransRef = "" /\ s.currentOutputTransRef = ""
     /\ s.nextStartTimeRef = 0
     /\ s.connectionState = "DISCONNECTED"

\* what cleanup leaves of the state and of the handles it clears
Cleaned ==
  /\ connectionState = "DISCONNECTED" /\ volume = 0
  /\ sessionRef = Null /\ streamRef = Null
  /\ inputAudioContextRef = Null /\ outputAudioContextRef = Null

\* C29: a task that calls disconnect() with no session handle, or with the
\* handle of a session whose promise has settled, ends with cleanup done and
\* with that session's transport no longer open (close was requested); with
\* the handle of a session whose promise is pending, the chain waits, and
\* the task that settles the promise, resolved or rejected, ends with cleanup
\* done and the transport no longer open.
C29_DisconnectCleans ==
  /\ hist.disc # <<>> =>
       LET d == hist.disc[1]
       IN IF d.k # Null /\ d.pending
          THEN pendingDisconnects[d.k] > 0
          ELSE /\ Cleaned
               /\ d.k # Null => transports[d.k] # "open"
  /\ hist.chains # <<>> =>
       /\ Cleaned
       /\ transports[hist.chains[1]] # "open"
       /\ pendingDisconnects[hist.chains[1]] = 0

\* C29 witness: disconnect() was called before the transport had opened, and
\* the task in which it opened requested its close and ran cleanup.
C29_Witness ==
  /\ hist.chains # <<>>
  /\ transports[hist.chains[1]] = "closing"
  /\ promises[hist.chains[1]] = "resolved"

\* C30: every resource a session acquired is released exactly once.  At
\* most once: cleanup releases what the refs hold and nothing else does, and
\* a ref never holds a stopped stream or a closed graph, so no cleanup stops
\* or closes again what an earlier one released.  At least once: when the
\* state is Disconnected, cleanup has run, connect() has not been called
\* since and nothing is pending, no microphone stream is live and no audio
\* graph is running.
C30_ReleasedOnce ==
  /\ streamRef # Null => streams[streamRef] = "live"
  /\ inputAudioContextRef # Null => contexts[inputAudioContextRef] = "running"
  /\ outputAudioContextRef # Null =>
       contexts[outputAudioContextRef] = "running"
  /\ (connectionState = "DISCONNECTED" /\ hist.idle /\ Settled) =>
       LiveStreams = {} /\ RunningContexts = {}

\* C23: no producer operates on a released resource: no buffer source is
\* created on, connected to or started on an output graph that is closed,
\* whatever the interleaving of cleanup() with a handler suspended at its
\* decode; and no audio tick reads a frame from a closed input graph (a
\* closed context fires no onaudioprocess: the guard of AudioTick).
C23_NoUseAfterRelease ==
  /\ \A src \in sources : contexts[src.ctx] # "closed"
  /\ hist.tick # <<>> => \E c \in processors : contexts[c] = "running"

(***************************************************************************)
(* The capture, and the claim about it.                                    *)
(***************************************************************************)
\* C28: an audio tick hands its frame over exactly when a session handle is
\* held at the tick; no transport is handed a frame before it has opened;
\* a tick in the Connected state gives one send to a transport; once cleanup
\* has run, no transport is handed a frame until connect() is called again.
C28_SendWhileHeld ==
  /\ hist.tick # <<>> =>
       /\ hist.tick[1].handed = hist.tick[1].held
       /\ hist.tick[1].connected => hist.tick[1].sentNow
  /\ \A k \in ConnectIds :
       framesSent[k] > 0 =>
         transports[k] \in {"open", "closing", "closed", "errored"}
  /\ ~hist.lateSend

(***************************************************************************)
(* The accumulators, and the claims about them.                            *)
(***************************************************************************)
\* C24: after a turnComplete has been handled, the pending user text and the
\* pending assistant text are both empty, whatever they held before, a user
\* text of white space only included.
C24_TurnCompleteClears ==
  hist.lastEvent = "turnComplete" =>
    /\ currentInputTransRef = ""
    /\ currentOutputTransRef = ""

UserEntries(log) == {i \in DOMAIN log : log[i].role = "user"}

\* C27: the step that handles an input delta appends the delta to the
\* pending user text and changes nothing else: not the log, the updates
\* queued for it, the assistant accumulator, the cursor or the in-flight
\* set.  The log (with the updates queued for it) gains a user message only
\* in a step that handles an output delta or a turnComplete: one message,
\* finalized, whose text is the whole pending user text, which the step
\* empties.
C27_InputOnlyAccumulates ==
  [][LET inputStep == hist'.msgs > hist.msgs /\ hist'.lastEvent = "input"
         flushStep == /\ hist'.msgs > hist.msgs
                      /\ hist'.lastEvent \in {"output", "turnComplete"}
         before == Rendered(St)
         after == Rendered([updateQueue |-> updateQueue',
                            transcript |-> transcript',
                            currentOutputTransRef |-> currentOutputTransRef',
                            now |-> now'])
     IN /\ inputStep =>
             /\ \E d \in InputDeltas :
                  currentInputTransRef' = currentInputTransRef \o d
             /\ UNCHANGED <<transcript, updateQueue, currentOutputTransRef,
                            nextStartTimeRef, activeSourcesRef>>
        /\ \A i \in UserEntries(after) : ~after[i].isPartial
        /\ Cardinality(UserEntries(after)) # Cardinality(UserEntries(before)) =>
             /\ flushStep
             /\ Cardinality(UserEntries(after)) =
                  Cardinality(UserEntries(before)) + 1
             /\ \E i \in UserEntries(after) :
                  /\ \A j \in UserEntries(after) : j <= i
                  /\ after[i].text = currentInputTransRef
             /\ currentInputTransRef' = ""]_vars

\* C27 witness: two input deltas were accumulated and reached the log as one
\* user message, at the turnComplete.
C27_Witness ==
  /\ hist.lastEvent = "turnComplete"
  /\ currentInputTransRef = ""
  /\ updateQueue = <<>>
  /\ \E i \in UserEntries(transcript) :
       transcript[i].text = " hi" /\ ~transcript[i].isPartial


(***************************************************************************)
(* Sessions that follow one another, and the claims about them.            *)
(***************************************************************************)
\* C31: the close or error event of a session that was cleaned up (its
\* stream not live, its contexts closed, its handle not in sessionRef),
\* delivered when a later connect() has started and holds its audio
\* contexts, leaves the later session's microphone stream, audio contexts, transport, handle and connection state
\* as they were.
C31_LateCallbackHarmless ==
  [][\A a \in ConnectIds :
       (/\ a < calls
        /\ transports'[a] # transports[a]
        /\ transports'[a] \in {"closed", "errored"}
        /\ streams[a] # "live" /\ sessionRef # a
        /\ contexts[InputCtxOf(a)] = "closed"
        /\ contexts[OutputCtxOf(a)] = "closed"
        /\ contexts[InputCtxOf(calls)] = "running"
        /\ contexts[OutputCtxOf(calls)] = "running")
       => /\ connectionState' = connectionState
          /\ streamRef' = streamRef /\ sessionRef' = sessionRef
          /\ inputAudioContextRef' = inputAudioContextRef
          /\ outputAudioContextRef' = outputAudioContextRef
          /\ streams'[calls] = streams[calls]
          /\ transports'[calls] = transports[calls]
          /\ contexts'[InputCtxOf(calls)] = contexts[InputCtxOf(calls)]
          /\ contexts'[OutputCtxOf(calls)] = contexts[OutputCtxOf(calls)]]_vars

\* C32: whenever connectionState is Connected, the session holds a live
\* microphone stream, a running input context, a running output context and
\* the handle of an open transport, and a processor is wired on the input
\* context, whose ticks send to that transport.
C32_ConnectedHoldsSession ==
  connectionState = "CONNECTED" =>
    /\ streamRef # Null /\ streams[streamRef] = "live"
    /\ inputAudioContextRef # Null
    /\ contexts[inputAudioContextRef] = "running"
    /\ outputAudioContextRef # Null
    /\ contexts[outputAudioContextRef] = "running"
    /\ sessionRef # Null /\ transports[sessionRef] = "open"
    /\ processorRef = inputAudioContextRef
    /\ inputAudioContextRef \in processors

(***************************************************************************)
(* Handlers that resume late, and the claims about them.                   *)
(***************************************************************************)
\* C33: a chunk whose handler was suspended at its resume or decode when an
\* interruption was handled is not scheduled and does not enter the
\* in-flight set when the handler resumes.
C33_NoStartAfterInterrupt == ~hist.startedStale

(***************************************************************************)
(* The entries of the log, and the claims about them.                      *)
(***************************************************************************)
\* C34: the messages of the log have pairwise distinct ids, whatever the
\* transport delivers and however the wall clock advances, a user message
\* and an assistant partial added for the same transport message included.
C34_DistinctIds ==
  \A i, j \in DOMAIN transcript :
    i # j => transcript[i].id # transcript[j].id

C36_ConfigIsSelected ==
  (/\ connectionState \in {"CONNECTING", "CONNECTED"}
   /\ sessionRef # Null
   /\ transports[sessionRef] \in {"opening", "open"})
  => configs[sessionRef] = [systemInstruction |-> activeMode,
                            voiceName |-> voiceName]

(***************************************************************************)
(* Transport events after the teardown, and the claim about them.          *)
(***************************************************************************)
\* C37: while the state is Disconnected, a step that delivers a message or
\* resumes a suspended handler leaves the log and its queued updates, both
\* accumulators, the in-flight set and the cursor as they were.
C37_QuietWhileDisconnected ==
  [][(/\ connectionState = "DISCONNECTED"
      /\ \/ hist'.msgs > hist.msgs
         \/ Len(handlers') < Len(handlers))
     => /\ transcript' = transcript
        /\ updateQueue' = updateQueue
        /\ currentInputTransRef' = currentInputTransRef
        /\ currentOutputTransRef' = currentOutputTransRef
        /\ activeSourcesRef' = activeSourcesRef
        /\ nextStartTimeRef' = nextStartTimeRef]_vars

(***************************************************************************)
(* The cursor and the in-flight set, and the claim about them.             *)
(***************************************************************************)
\* the units of the in-flight set
InFlight == {src \in sources : src.id \in activeSourcesRef}

\* C38: in every state, every unit of the in-flight set ends at or before
\* the cursor; and a step that schedules a unit starts it at or after the
\* end of every unit that was in the in-flight set.
C38_CursorCoversInFlight ==
  [][/\ \A u \in InFlight : u.start + u.duration <= nextStartTimeRef
     /\ \A u \in InFlight' : u.start + u.duration <= nextStartTimeRef'
     /\ created' > created =>
          \A new \in {src \in sources' : src.id = created'}, u \in InFlight :
            new.start >= u.start + u.duration]_vars

\* C38 witness: two units in flight, the second scheduled behind the first
\* while the cursor was ahead of the clock, the cursor at the end of the
\* second.
C38_Witness ==
  /\ Cardinality(InFlight) = 2
  /\ \E u, v \in InFlight :
       /\ v.start = u.start + u.duration
       /\ v.start > currentTime[v.ctx]
       /\ nextStartTimeRef = v.start + v.duration
====
